---------------------------- MODULE Spec2Model ----------------------------
(***************************************************************************)
(* Model of scripts/gen_header.py of the Manganese repository: the header  *)
(* generator that locates a .cpp file, classifies its lines with four      *)
(* regular expressions and writes the companion .h file.                   *)
(*                                                                         *)
(* Text is modelled character by character: a string is a sequence of      *)
(* one-character strings, a file is the sequence of lines readlines()      *)
(* returns (each with its trailing "\n"), and a written header is the      *)
(* sequence of its lines (every write of the code ends in "\n").           *)
(***************************************************************************)
EXTENDS Integers, Sequences, FiniteSets, TLC

(***************************************************************************)
(* Characters and character classes                                        *)
(***************************************************************************)
LowerSeq ==
  <<"a","b","c","d","e","f","g","h","i","j","k","l","m",
    "n","o","p","q","r","s","t","u","v","w","x","y","z">>
UpperSeq ==
  <<"A","B","C","D","E","F","G","H","I","J","K","L","M",
    "N","O","P","Q","R","S","T","U","V","W","X","Y","Z">>
Lower == {LowerSeq[n] : n \in DOMAIN LowerSeq}
Upper == {UpperSeq[n] : n \in DOMAIN UpperSeq}
Digit == {"0","1","2","3","4","5","6","7","8","9"}

\* \s of the re module, on the characters of the model
IsSpace(c) == c \in {" ", "\t", "\n"}
\* [a-zA-Z_]
IsIdentStart(c) == c \in Lower \cup Upper \cup {"_"}
\* \w
IsWord(c) == c \in Lower \cup Upper \cup Digit \cup {"_"}
\* IsReturnTypeChar with the colon left out of the class
IsReturnTypeCharNoColon(c) == IsWord(c) \/ IsSpace(c) \/ c \in {"<", ">", "*", "&"}

\* [\w:<>\s*&], the class of the return-type group of func_pattern
IsReturnTypeChar(c) == IsWord(c) \/ IsSpace(c) \/ c \in {":", "<", ">", "*", "&"}

(***************************************************************************)
(* Scanning helpers: the position reached by a greedy run                  *)
(***************************************************************************)
RECURSIVE SkipSpace(_, _)
\* the position after the longest run of \s starting at i
SkipSpace(s, i) ==
  IF i <= Len(s) /\ IsSpace(s[i]) THEN SkipSpace(s, i + 1) ELSE i

RECURSIVE SkipWord(_, _)
\* the position after the longest run of \w starting at i
SkipWord(s, i) ==
  IF i <= Len(s) /\ IsWord(s[i]) THEN SkipWord(s, i + 1) ELSE i

RECURSIVE FindChar(_, _, _)
\* the first position >= i holding c, or Len(s) + 1
FindChar(s, i, c) ==
  IF i <= Len(s) /\ s[i] # c THEN FindChar(s, i + 1, c) ELSE i

\* s has the literal lit at position i
HasAt(s, i, lit) ==
  /\ i + Len(lit) - 1 <= Len(s)
  /\ \A n \in 1..Len(lit) : s[i + n - 1] = lit[n]

\* str.strip(): without leading and trailing whitespace
strip(s) ==
  LET keep == {n \in 1..Len(s) : ~IsSpace(s[n])}
  IN  IF keep = {} THEN <<>>
      ELSE SubSeq(s, CHOOSE a \in keep : \A b \in keep : a <= b,
                     CHOOSE a \in keep : \A b \in keep : a >= b)

\* str.upper()
upper(s) ==
  [n \in 1..Len(s) |->
     IF s[n] \in Lower
     THEN UpperSeq[CHOOSE m \in DOMAIN LowerSeq : LowerSeq[m] = s[n]]
     ELSE s[n]]

(***************************************************************************)
(* Literals of the program                                                 *)
(***************************************************************************)
kwInclude == <<"#","i","n","c","l","u","d","e">>
kwDefine == <<"#","d","e","f","i","n","e">>
kwNamespace == <<"n","a","m","e","s","p","a","c","e">>
kwManganese == <<"M","A","N","G","A","N","E","S","E","_">>
kwBegin == <<"B","E","G","I","N">>
kwEnd == <<"E","N","D">>
kwIfndef == <<"#","i","f","n","d","e","f"," ">>
kwDefineSp == <<"#","d","e","f","i","n","e"," ">>
kwEndif == <<"#","e","n","d","i","f"," ","/","/"," ">>
kwGuardSuffix == <<"_","H">>
kwNamespaceSp == <<"n","a","m","e","s","p","a","c","e"," ">>
kwOpenBrace == <<" ","{">>
kwManganeseBegin == <<"M","A","N","G","A","N","E","S","E","_","B","E","G","I","N">>
kwManganeseEnd == <<"M","A","N","G","A","N","E","S","E","_","E","N","D">>
suffixCpp == <<".","c","p","p">>
suffixH == <<".","h">>

(***************************************************************************)
(* The four regular expressions, each applied with re.match (anchored at   *)
(* the start of the line).  A result is [ok, g1, g2, g3].                  *)
(***************************************************************************)
NoMatch == [ok |-> FALSE, g1 |-> <<>>, g2 |-> <<>>, g3 |-> <<>>]

\* ^\s*#include\s+[<"](.+)[>"]
\* .+ is greedy and does not cross "\n": the group runs to just before the
\* LAST > or " of the line.
include_pattern(s) ==
  LET p0 == SkipSpace(s, 1)
      p1 == p0 + Len(kwInclude)
      p2 == SkipSpace(s, p1)
      nl == FindChar(s, p2 + 1, "\n")
      closers == {e \in (p2 + 2)..(nl - 1) : s[e] \in {">", "\""}}
  IN  IF /\ HasAt(s, p0, kwInclude)
         /\ p2 > p1
         /\ p2 <= Len(s)
         /\ s[p2] \in {"<", "\""}
         /\ closers # {}
      THEN [ok |-> TRUE,
            g1 |-> SubSeq(s, p2 + 1,
                          (CHOOSE e \in closers : \A f \in closers : e >= f) - 1),
            g2 |-> <<>>, g3 |-> <<>>]
      ELSE NoMatch

\* ^\s*#define\s+(MANGANESE_(?:BEGIN|END)).*
define_pattern(s) ==
  LET p0 == SkipSpace(s, 1)
      p1 == p0 + Len(kwDefine)
      p2 == SkipSpace(s, p1)
      p3 == p2 + Len(kwManganese)
  IN  IF /\ HasAt(s, p0, kwDefine)
         /\ p2 > p1
         /\ HasAt(s, p2, kwManganese)
         /\ (HasAt(s, p3, kwBegin) \/ HasAt(s, p3, kwEnd))
      THEN [ok |-> TRUE,
            g1 |-> IF HasAt(s, p3, kwBegin) THEN kwManganese \o kwBegin
                   ELSE kwManganese \o kwEnd,
            g2 |-> <<>>, g3 |-> <<>>]
      ELSE NoMatch

\* func_tail with the final \s*\{ left out of the pattern
func_tail_no_brace(s, q1) ==
  LET q2 == SkipSpace(s, q1)
      q3 == SkipWord(s, q2)
      q4 == SkipSpace(s, q3)
      q5 == FindChar(s, q4 + 1, ")")
  IN  IF /\ q2 > q1
         /\ q2 <= Len(s)
         /\ IsIdentStart(s[q2])
         /\ q4 <= Len(s)
         /\ s[q4] = "("
         /\ q5 <= Len(s)
      THEN [ok |-> TRUE, g1 |-> <<>>,
            g2 |-> SubSeq(s, q2, q3 - 1),
            g3 |-> SubSeq(s, q4 + 1, q5 - 1)]
      ELSE [ok |-> FALSE, g1 |-> <<>>, g2 |-> <<>>, g3 |-> <<>>]

\* \s+([a-zA-Z_][\w]*)\s*\(([^)]*)\)\s*\{  matched from position q1: the part
\* of func_pattern after the return-type group.  Every run is forced: the
\* character after each greedy run cannot belong to it.
func_tail(s, q1) ==
  LET q2 == SkipSpace(s, q1)
      q3 == SkipWord(s, q2)
      q4 == SkipSpace(s, q3)
      q5 == FindChar(s, q4 + 1, ")")
      q6 == SkipSpace(s, q5 + 1)
  IN  IF /\ q2 > q1
         /\ q2 <= Len(s)
         /\ IsIdentStart(s[q2])
         /\ q4 <= Len(s)
         /\ s[q4] = "("
         /\ q5 <= Len(s)
         /\ q6 <= Len(s)
         /\ s[q6] = "{"
      THEN [ok |-> TRUE, g1 |-> <<>>,
            g2 |-> SubSeq(s, q2, q3 - 1),
            g3 |-> SubSeq(s, q4 + 1, q5 - 1)]
      ELSE NoMatch

\* ^\s*([a-zA-Z_][\w:<>\s*&]*?)\s+([a-zA-Z_][\w]*)\s*\(([^)]*)\)\s*\{
\* The return-type group is lazy: the shortest end from which the rest
\* matches is taken.
func_pattern(s) ==
  LET p0 == SkipSpace(s, 1)
      ends == {e \in p0..Len(s) :
                 /\ \A n \in (p0 + 1)..e : IsReturnTypeChar(s[n])
                 /\ func_tail(s, e + 1).ok}
  IN  IF p0 <= Len(s) /\ IsIdentStart(s[p0]) /\ ends # {}
      THEN LET e == CHOOSE a \in ends : \A b \in ends : a <= b
               t == func_tail(s, e + 1)
           IN  [ok |-> TRUE, g1 |-> SubSeq(s, p0, e), g2 |-> t.g2, g3 |-> t.g3]
      ELSE NoMatch

\* ^\s*namespace\s+([a-zA-Z_][\w]*)\s*\{
namespace_pattern(s) ==
  LET p0 == SkipSpace(s, 1)
      p1 == p0 + Len(kwNamespace)
      p2 == SkipSpace(s, p1)
      p3 == SkipWord(s, p2)
      p4 == SkipSpace(s, p3)
  IN  IF /\ HasAt(s, p0, kwNamespace)
         /\ p2 > p1
         /\ p2 <= Len(s)
         /\ IsIdentStart(s[p2])
         /\ p4 <= Len(s)
         /\ s[p4] = "{"
      THEN [ok |-> TRUE, g1 |-> SubSeq(s, p2, p3 - 1), g2 |-> <<>>, g3 |-> <<>>]
      ELSE NoMatch

(***************************************************************************)
(* extract_includes_and_declarations                                       *)
(***************************************************************************)
EmptyScan ==
  [includes |-> <<>>, declarations |-> <<>>, namespaces |-> <<>>,
   manganese_macros |-> <<>>]

\* f"{return_type} {name}({args});" with each group stripped
prototype(m) ==
  strip(m.g1) \o <<" ">> \o strip(m.g2) \o <<"(">> \o strip(m.g3) \o <<")", ";">>

\* scan_line putting the newest entry of a category first
scan_line_newest_first(r, line, source_filename) ==
  LET include_match == include_pattern(line)
      define_match == define_pattern(line)
      func_match == func_pattern(line)
      namespace_match == namespace_pattern(line)
  IN  IF include_match.ok
      THEN IF include_match.g1 # source_filename
           THEN [r EXCEPT !.includes = <<strip(line)>> \o @]
           ELSE r
      ELSE IF define_match.ok
      THEN [r EXCEPT !.manganese_macros = <<strip(line)>> \o @]
      ELSE IF func_match.ok
      THEN [r EXCEPT !.declarations = <<prototype(func_match)>> \o @]
      ELSE IF namespace_match.ok
      THEN [r EXCEPT !.namespaces = <<strip(namespace_match.g1)>> \o @]
      ELSE r

\* one iteration of the loop over file_content
scan_line(r, line, source_filename) ==
  LET include_match == include_pattern(line)
      define_match == define_pattern(line)
      func_match == func_pattern(line)
      namespace_match == namespace_pattern(line)
  IN  IF include_match.ok
      THEN IF include_match.g1 # source_filename
           THEN [r EXCEPT !.includes = Append(@, strip(line))]
           ELSE r
      ELSE IF define_match.ok
      THEN [r EXCEPT !.manganese_macros = Append(@, strip(line))]
      ELSE IF func_match.ok
      THEN [r EXCEPT !.declarations = Append(@, prototype(func_match))]
      ELSE IF namespace_match.ok
      THEN [r EXCEPT !.namespaces = Append(@, strip(namespace_match.g1))]
      ELSE r

RECURSIVE scan_from(_, _, _, _)
\* the loop from line k on
scan_from(r, file_content, k, source_filename) ==
  IF k > Len(file_content) THEN r
  ELSE scan_from(scan_line(r, file_content[k], source_filename),
                 file_content, k + 1, source_filename)

extract_includes_and_declarations(file_content, source_filename) ==
  scan_from(EmptyScan, file_content, 1, source_filename)

(***************************************************************************)
(* pathlib: name, suffix, stem, with_suffix                                *)
(***************************************************************************)
\* with_suffix adding the suffix to the whole name
with_suffix_appended(path, suf) ==
  [path EXCEPT !.name = path.name \o suf]

\* str.rfind("."): the last position of ".", or 0
LastDot(name) ==
  LET dots == {n \in 1..Len(name) : name[n] = "."}
  IN  IF dots = {} THEN 0 ELSE CHOOSE a \in dots : \A b \in dots : a >= b

\* PurePath.suffix: from the last dot, unless the dot is first or last
suffix(name) ==
  LET d == LastDot(name)
  IN  IF 1 < d /\ d < Len(name) THEN SubSeq(name, d, Len(name)) ELSE <<>>

\* PurePath.stem
stem(name) ==
  LET d == LastDot(name)
  IN  IF 1 < d /\ d < Len(name) THEN SubSeq(name, 1, d - 1) ELSE name

\* PurePath.with_suffix
with_suffix(path, suf) ==
  [path EXCEPT !.name = SubSeq(@, 1, Len(@) - Len(suffix(@))) \o suf]

(***************************************************************************)
(* The text generate_header_file writes                                    *)
(***************************************************************************)
\* include_guard without the call of upper()
include_guard_no_upper(source_name) == stem(source_name) \o kwGuardSuffix

\* filename_base = source_path.stem.upper(); include_guard = f"{filename_base}_H"
include_guard(source_name) == upper(stem(source_name)) \o kwGuardSuffix

\* for namespace in namespaces: f.write(f"namespace {namespace} {{\n\n")
write_namespace_opens(namespaces) ==
  [n \in 1..(2 * Len(namespaces)) |->
     IF n % 2 = 1 THEN kwNamespaceSp \o namespaces[(n + 1) \div 2] \o kwOpenBrace
     ELSE <<>>]

\* write_namespace_closes writing one brace however many namespaces
write_namespace_closes_once(namespaces) ==
  IF namespaces # <<>> THEN << <<"}">> >> ELSE <<>>

\* for _ in namespaces: f.write("}\n")
write_namespace_closes(namespaces) ==
  [n \in 1..Len(namespaces) |-> <<"}">>]

\* if manganese_macros: f.write("MANGANESE_BEGIN\n")
write_macro_begin(manganese_macros) ==
  IF manganese_macros # <<>> THEN <<kwManganeseBegin>> ELSE <<>>

\* write_macro_end writing the closing line once per marker line
write_macro_end_per_marker(manganese_macros) ==
  [n \in 1..(3 * Len(manganese_macros)) |->
     IF n % 3 = 2 THEN kwManganeseEnd ELSE <<>>]

\* if manganese_macros: f.write("\nMANGANESE_END\n\n")
write_macro_end(manganese_macros) ==
  IF manganese_macros # <<>> THEN << <<>>, kwManganeseEnd, <<>> >> ELSE <<>>

\* header_lines with the declarations written before the namespace openings
header_lines_declarations_first(r, guard) ==
  << kwIfndef \o guard, kwDefineSp \o guard, <<>> >>
  \o r.includes
  \o << <<>> >>
  \o write_macro_begin(r.manganese_macros)
  \o r.declarations
  \o write_namespace_opens(r.namespaces)
  \o << <<>> >>
  \o write_namespace_closes(r.namespaces)
  \o write_macro_end(r.manganese_macros)
  \o << kwEndif \o guard >>

\* the lines written between open(header_path, 'w') and its close
header_lines(r, guard) ==
  << kwIfndef \o guard, kwDefineSp \o guard, <<>> >>
  \o r.includes
  \o << <<>> >>
  \o write_macro_begin(r.manganese_macros)
  \o write_namespace_opens(r.namespaces)
  \o r.declarations
  \o << <<>> >>
  \o write_namespace_closes(r.namespaces)
  \o write_macro_end(r.manganese_macros)
  \o << kwEndif \o guard >>

(***************************************************************************)
(* Bounds of the model                                                     *)
(***************************************************************************)
\* command-line arguments per run
MaxArgs == 2
\* runs of the script in one behaviour
MaxRuns == 3
\* lines of a scanned file in ScanSpec
MaxLines == 3

\* characters inserted into a skeleton line in LineSpec
MaxInserts == 2

(***************************************************************************)
(* State                                                                   *)
(***************************************************************************)
VARIABLES
  fs,              \* the tree under the working directory: path -> entry
  walk,            \* the order in which rglob visits the directories
  unwritable,      \* paths open(path, 'w') fails on
  argv,            \* sys.argv[1:]
  argi,            \* position of the loop over sys.argv[1:]
  pc,              \* control state of the run
  stdout,          \* what the run printed, in order
  writes,          \* path -> number of times it was opened for writing
  reads,           \* the paths opened for reading
  runs,            \* runs started so far
  file_content,    \* ScanSpec: the lines being classified
  source_filename, \* ScanSpec: the name of the file they come from
  pos,             \* ScanSpec: the next line of the loop
  scan,            \* ScanSpec: includes, declarations, namespaces, macros
  header,          \* ScanSpec: the header lines assembled from scan
  walked,          \* lint: what get_filenames_in("src", "include", "tests") returns
  files,           \* lint: the files to check
  failed_files,    \* lint: the files whose check failed
  next_file,       \* lint: position of the loop over files
  invoked,         \* lint: the analyzer runs so far, with their exit codes
  lint_out,        \* lint: what the script printed, in order
  script,          \* build: which of the two build scripts runs
  args,            \* build: the record parse_args returned
  artifact,        \* build: where the executable is: build/bin, the root
  performed,       \* build: the steps done so far, commands with exit codes
  exit_code        \* build: the exit status of the script, once it exited

prog == <<fs, walk, unwritable, argv, argi, stdout, writes, reads, runs>>
scanv == <<file_content, source_filename, pos, scan, header>>
lintv == <<walked, files, failed_files, next_file, invoked, lint_out>>
buildv == <<script, args, artifact, performed, exit_code>>
vars == <<prog, pc, scanv, lintv, buildv>>

\* the lint runner is not running
IdleLint ==
  /\ walked = <<>>
  /\ files = <<>>
  /\ failed_files = <<>>
  /\ next_file = 0
  /\ invoked = <<>>
  /\ lint_out = <<>>

\* the build script is not running
IdleBuild ==
  /\ script = ""
  /\ args = <<>>
  /\ artifact = {}
  /\ performed = <<>>
  /\ exit_code = 0

(***************************************************************************)
(* The file system                                                         *)
(***************************************************************************)
Path(d, n) == [dir |-> d, name |-> n]
NoPath == Path("", <<>>)
File(lines) == [kind |-> "file", lines |-> lines]
Directory == [kind |-> "dir", lines |-> <<>>]

\* Path('.').rglob(filename), then the first hit that is_file().  The walk
\* visits a directory before its subdirectories; the order of sibling
\* directories is the file system's.  The arguments of the model hold no
\* glob metacharacter and no separator.
find_source_file(tree, order, filename) ==
  LET hits == {n \in 1..Len(order) :
                 /\ Path(order[n], filename) \in DOMAIN tree
                 /\ tree[Path(order[n], filename)].kind = "file"}
  IN  IF hits = {} THEN NoPath
      ELSE Path(order[CHOOSE a \in hits : \A b \in hits : a <= b], filename)

\* write_file opening the file in mode 'a'
append_file(tree, path, lines) ==
  (path :> File((IF path \in DOMAIN tree THEN tree[path].lines ELSE <<>>)
                \o lines)) @@ tree

\* with open(header_path, 'w') as f: f.write(...) ...
write_file(tree, path, lines) == (path :> File(lines)) @@ tree

\* open(header_path, 'w') raises OSError
CannotOpenForWriting(tree, path) ==
  \/ path \in unwritable
  \/ path \in DOMAIN tree /\ tree[path].kind = "dir"

Message(kind, arg, path) == [kind |-> kind, arg |-> arg, path |-> path]

(***************************************************************************)
(* Inputs                                                                  *)
(***************************************************************************)
\* a.cpp
nameA ==
  <<"a",".","c","p","p">>
\* bC1.cpp
nameB ==
  <<"b","C","1",".","c","p","p">>
\* n.hpp
nameHpp ==
  <<"n",".","h","p","p">>
\* z.cpp
nameZ ==
  <<"z",".","c","p","p">>
ArgNames == {nameA, nameB, nameHpp, nameZ}

\* #include "a.cpp"\n
lnSelfInclude ==
  <<"#","i","n","c","l","u","d","e"," ","\"","a",".","c","p","p","\"","\n">>
\* #include <a.cpp>\n
lnSelfIncludeAngle ==
  <<"#","i","n","c","l","u","d","e"," ","<","a",".","c","p","p",">","\n">>
\* #include "a.cpp" // "x"\n
lnSelfIncludeComment ==
  <<"#","i","n","c","l","u","d","e"," ","\"","a",".","c","p","p","\""," ",
    "/","/"," ","\"","x","\"","\n">>
\* #include <v>\n
lnIncludeV ==
  <<"#","i","n","c","l","u","d","e"," ","<","v",">","\n">>
\*   #include "b.h" \n
lnIncludeIndented ==
  <<" "," ","#","i","n","c","l","u","d","e"," ","\"","b",".","h","\""," ",
    "\n">>
\* #include<v>\n
lnIncludeNoSpace ==
  <<"#","i","n","c","l","u","d","e","<","v",">","\n">>
\* #define MANGANESE_BEGIN\n
lnMacroBegin ==
  <<"#","d","e","f","i","n","e"," ","M","A","N","G","A","N","E","S","E","_",
    "B","E","G","I","N","\n">>
\*  #define  MANGANESE_END }\n
lnMacroEnd ==
  <<" ","#","d","e","f","i","n","e"," "," ","M","A","N","G","A","N","E","S",
    "E","_","E","N","D"," ","}","\n">>
\* #define N 1\n
lnDefineOther ==
  <<"#","d","e","f","i","n","e"," ","N"," ","1","\n">>
\* namespace ns {\n
lnNamespace ==
  <<"n","a","m","e","s","p","a","c","e"," ","n","s"," ","{","\n">>
\* namespace f() {\n
lnNamespaceCall ==
  <<"n","a","m","e","s","p","a","c","e"," ","f","(",")"," ","{","\n">>
\* void f(int a) {\n
lnFuncVoid ==
  <<"v","o","i","d"," ","f","(","i","n","t"," ","a",")"," ","{","\n">>
\*  std::T<x>* g( ) { return 0; }\n
lnFuncQualified ==
  <<" ","s","t","d",":",":","T","<","x",">","*"," ","g","("," ",")"," ","{",
    " ","r","e","t","u","r","n"," ","0",";"," ","}","\n">>
\* void f(int a)\n
lnFuncNoBrace ==
  <<"v","o","i","d"," ","f","(","i","n","t"," ","a",")","\n">>
\* }\n
lnCloseBrace ==
  <<"}","\n">>
\* x = 1;
lnStatement ==
  <<"x"," ","="," ","1",";">>
LinePool ==
  {lnSelfInclude, lnSelfIncludeAngle, lnSelfIncludeComment, lnIncludeV,
   lnIncludeIndented, lnIncludeNoSpace, lnMacroBegin, lnMacroEnd,
   lnDefineOther, lnNamespace, lnNamespaceCall, lnFuncVoid, lnFuncQualified,
   lnFuncNoBrace, lnCloseBrace, lnStatement}

\* sequences over S of length at most n
BSeq(S, n) == UNION {[1..m -> S] : m \in 0..n}

ContentA1 ==
  <<lnSelfInclude, lnIncludeV, lnNamespace, lnFuncVoid, lnCloseBrace,
    lnCloseBrace>>
ContentA2 == <<lnMacroBegin, lnFuncQualified, lnMacroEnd>>
ContentB == <<lnIncludeV, lnIncludeV, lnStatement>>

\* the trees a run can start in
InitialTrees ==
  {   (Path(".", nameB) :> File(ContentB))
   @@ (Path(".", nameZ) :> Directory)
   @@ (Path("d1", nameHpp) :> File(<<lnFuncVoid>>))
   @@ (IF in1 THEN Path("d1", nameA) :> File(c1) ELSE <<>>)
   @@ (IF in2 THEN Path("d2", nameA) :> File(ContentA2) ELSE <<>>)
   @@ (IF stale THEN Path("d1", with_suffix(Path("d1", nameA), suffixH).name)
                       :> File(<<lnStatement>>)
       ELSE <<>>)
   : in1 \in BOOLEAN, in2 \in BOOLEAN, stale \in BOOLEAN,
     c1 \in {ContentA1, <<>>} }

(***************************************************************************)
(* The script: one run is __main__, a loop of generate_header_file         *)
(***************************************************************************)
Init ==
  /\ fs \in InitialTrees
  /\ walk \in {<<".", "d1", "d2">>, <<".", "d2", "d1">>}
  /\ unwritable \in {{}, {Path("d1", <<"a", ".", "h">>)},
                     {Path(".", <<"b", "C", "1", ".", "h">>)}}
  /\ argv = <<>>
  /\ argi = 0
  /\ pc = "idle"
  /\ stdout = <<>>
  /\ writes = [p \in {} |-> 0]
  /\ reads = {}
  /\ runs = 0
  /\ file_content = <<>>
  /\ source_filename = <<>>
  /\ pos = 0
  /\ scan = EmptyScan
  /\ header = <<>>
  /\ IdleLint
  /\ IdleBuild

\* python gen_header.py args...
Invoke ==
  /\ pc \in {"idle", "done", "crashed"}
  /\ runs < MaxRuns
  /\ \E names \in BSeq(ArgNames, MaxArgs) : argv' = names
  /\ argi' = 0
  /\ stdout' = <<>>
  /\ runs' = runs + 1
  /\ pc' = "main"
  /\ UNCHANGED <<fs, walk, unwritable, writes, reads, scanv, lintv, buildv>>

\* if len(sys.argv) != 2: print("Usage: ...")
MainUsage ==
  /\ pc = "main"
  /\ Len(argv) + 1 # 2
  /\ stdout' = Append(stdout, Message("usage", <<>>, NoPath))
  /\ pc' = "done"
  /\ UNCHANGED <<fs, walk, unwritable, argv, argi, writes, reads, runs,
               scanv, lintv, buildv>>

\* else: for file in sys.argv[1:]:
MainLoop ==
  /\ pc = "main"
  /\ Len(argv) + 1 = 2
  /\ argi' = 1
  /\ pc' = "loop"
  /\ UNCHANGED <<fs, walk, unwritable, argv, stdout, writes, reads, runs,
               scanv, lintv, buildv>>

\* generate_header_file: no file, or not a .cpp file
GenerateNotFound ==
  /\ pc = "loop"
  /\ argi <= Len(argv)
  /\ LET source_path == find_source_file(fs, walk, argv[argi])
     IN  /\ source_path = NoPath \/ suffix(source_path.name) # suffixCpp
         /\ stdout' = Append(stdout, Message("notfound", argv[argi], NoPath))
  /\ argi' = argi + 1
  /\ UNCHANGED <<fs, walk, unwritable, argv, pc, writes, reads, runs,
               scanv, lintv, buildv>>

\* generate_header_file: the source is read, the header is written beside it
GenerateWritten ==
  /\ pc = "loop"
  /\ argi <= Len(argv)
  /\ LET source_path == find_source_file(fs, walk, argv[argi])
         content == fs[source_path].lines
         r == extract_includes_and_declarations(content, source_path.name)
         header_path == with_suffix(source_path, suffixH)
     IN  /\ source_path # NoPath
         /\ suffix(source_path.name) = suffixCpp
         /\ ~CannotOpenForWriting(fs, header_path)
         /\ fs' = write_file(fs, header_path,
                             header_lines(r, include_guard(source_path.name)))
         /\ writes' = (header_path :>
                         (IF header_path \in DOMAIN writes
                          THEN writes[header_path] + 1 ELSE 1)) @@ writes
         /\ reads' = reads \cup {source_path}
         /\ stdout' = Append(stdout, Message("generated", argv[argi], header_path))
  /\ argi' = argi + 1
  /\ UNCHANGED <<walk, unwritable, argv, pc, runs, scanv, lintv, buildv>>

\* generate_header_file: the source is read, then open(header_path, 'w')
\* raises, nothing catches it
GenerateWriteError ==
  /\ pc = "loop"
  /\ argi <= Len(argv)
  /\ LET source_path == find_source_file(fs, walk, argv[argi])
         header_path == with_suffix(source_path, suffixH)
     IN  /\ source_path # NoPath
         /\ suffix(source_path.name) = suffixCpp
         /\ CannotOpenForWriting(fs, header_path)
         /\ reads' = reads \cup {source_path}
         /\ stdout' = Append(stdout, Message("traceback", argv[argi], header_path))
  /\ pc' = "crashed"
  /\ UNCHANGED <<fs, walk, unwritable, argv, argi, writes, runs,
               scanv, lintv, buildv>>

\* the loop is over: the script ends
MainEnd ==
  /\ pc = "loop"
  /\ argi > Len(argv)
  /\ pc' = "done"
  /\ UNCHANGED <<prog, scanv, lintv, buildv>>

Next ==
  \/ Invoke
  \/ MainUsage
  \/ MainLoop
  \/ GenerateNotFound
  \/ GenerateWritten
  \/ GenerateWriteError
  \/ MainEnd

Spec == Init /\ [][Next]_vars

(***************************************************************************)
(* ScanSpec: the classification loop and the assembly on their own, over   *)
(* every file of at most MaxLines lines of LinePool                        *)
(***************************************************************************)
ScanNames == {nameA, nameB}

IdleProgram ==
  /\ fs = <<>>
  /\ walk = <<>>
  /\ unwritable = {}
  /\ argv = <<>>
  /\ argi = 0
  /\ stdout = <<>>
  /\ writes = [p \in {} |-> 0]
  /\ reads = {}
  /\ runs = 0

ScanInit ==
  /\ IdleProgram
  /\ IdleLint
  /\ IdleBuild
  /\ pc = "scan"
  /\ file_content \in BSeq(LinePool, MaxLines)
  /\ source_filename \in ScanNames
  /\ pos = 1
  /\ scan = EmptyScan
  /\ header = <<>>

\* for line in file_content: one iteration
ScanLine ==
  /\ pc = "scan"
  /\ pos <= Len(file_content)
  /\ scan' = scan_line(scan, file_content[pos], source_filename)
  /\ pos' = pos + 1
  /\ UNCHANGED <<prog, pc, file_content, source_filename, header, lintv, buildv>>

\* return includes, declarations, namespaces, manganese_macros; the header
\* text is assembled from them
Assemble ==
  /\ pc = "scan"
  /\ pos > Len(file_content)
  /\ header' = header_lines(scan, include_guard(source_filename))
  /\ pc' = "assembled"
  /\ UNCHANGED <<prog, file_content, source_filename, pos, scan, lintv, buildv>>

ScanNext ==
  \/ ScanLine
  \/ Assemble

ScanSpec == ScanInit /\ [][ScanNext]_vars

(***************************************************************************)
(* Properties                                                              *)
(***************************************************************************)
\* the number of positions of seq whose element satisfies P
Count(seq, P(_)) == Cardinality({n \in DOMAIN seq : P(seq[n])})

\* the kinds of line of a header, told apart by their text
IsIncludeText(h) == HasAt(h, 1, kwInclude)
IsNamespaceOpenText(h) ==
  /\ HasAt(h, 1, kwNamespaceSp)
  /\ HasAt(h, Len(h) - 1, kwOpenBrace)
IsCloseBraceText(h) == h = <<"}">>
IsMacroBeginText(h) == h = kwManganeseBegin
IsMacroEndText(h) == h = kwManganeseEnd
IsDeclarationText(h) ==
  /\ Len(h) >= 2
  /\ IsIdentStart(h[1])
  /\ h[Len(h)] = ";"

\* the first-match category of a source line
IsIncludeLine(l) == include_pattern(l).ok
IsMacroLine(l) == ~include_pattern(l).ok /\ define_pattern(l).ok
IsFunctionLine(l) ==
  ~include_pattern(l).ok /\ ~define_pattern(l).ok /\ func_pattern(l).ok
IsNamespaceLine(l) ==
  /\ ~include_pattern(l).ok
  /\ ~define_pattern(l).ok
  /\ ~func_pattern(l).ok
  /\ namespace_pattern(l).ok

\* the file an include directive names: the text from its opening < or " to
\* the first > or " after it
NamedFile(l) ==
  LET open == SkipSpace(l, SkipSpace(l, 1) + Len(kwInclude))
      close == CHOOSE e \in (open + 1)..Len(l) :
                 /\ l[e] \in {">", "\""}
                 /\ \A f \in (open + 1)..(e - 1) : l[f] \notin {">", "\""}
  IN  SubSeq(l, open + 1, close - 1)

IsSelfInclude(l) == IsIncludeLine(l) /\ NamedFile(l) = source_filename
IsOtherInclude(l) == IsIncludeLine(l) /\ NamedFile(l) # source_filename

\* C1: an include line that names the source file itself never appears in
\* the generated header, and the include lines of the header are the other
\* recognized include lines, stripped, one per occurrence, in line order.
C1_SelfIncludeSuppressed ==
  pc = "assembled" =>
    LET others == SelectSeq(file_content, IsOtherInclude)
    IN  /\ \A n \in DOMAIN file_content :
             IsSelfInclude(file_content[n]) =>
               \A m \in DOMAIN header : header[m] # strip(file_content[n])
        /\ SelectSeq(header, IsIncludeText) =
             [n \in DOMAIN others |-> strip(others[n])]

\* C2: the header has as many "namespace X {" lines as "}" lines, and both
\* are as many as the source lines classified as namespace openings,
\* whatever the braces of the source.
C2_NamespaceSymmetry ==
  pc = "assembled" =>
    /\ Count(header, IsNamespaceOpenText) = Count(file_content, IsNamespaceLine)
    /\ Count(header, IsCloseBraceText) = Count(file_content, IsNamespaceLine)

\* C2 witness: a namespace opened twice in a source with no closing brace
C2_Witness ==
  /\ pc = "assembled"
  /\ Count(file_content, IsNamespaceLine) = 2
  /\ \A n \in DOMAIN file_content : file_content[n] # lnCloseBrace
  /\ Count(header, IsCloseBraceText) = 2

\* the upper-case letter of a lower-case one, any other character itself
UpperCaseOf(c) ==
  IF \E m \in DOMAIN LowerSeq : LowerSeq[m] = c
  THEN UpperSeq[CHOOSE m \in DOMAIN LowerSeq : LowerSeq[m] = c]
  ELSE c

\* the guard of a file name: its stem in upper case, then _H
GuardOf(name) ==
  LET base == SubSeq(name, 1, Len(name) - Len(suffixCpp))
  IN  [n \in 1..Len(base) |-> UpperCaseOf(base[n])] \o <<"_", "H">>

\* C3: the identifier of the #ifndef, #define and #endif lines is the upper
\* case file stem followed by _H, whatever the lines of the file.
C3_GuardFromName ==
  pc = "assembled" =>
    /\ header[1] = kwIfndef \o GuardOf(source_filename)
    /\ header[2] = kwDefineSp \o GuardOf(source_filename)
    /\ header[Len(header)] = kwEndif \o GuardOf(source_filename)

\* C3 witness: bC1.cpp with some lines gives the guard BC1_H
C3_Witness ==
  /\ pc = "assembled"
  /\ source_filename = nameB
  /\ Len(file_content) >= 2
  /\ header[1] = kwIfndef \o <<"B", "C", "1", "_", "H">>

\* C4: a run with one or more file names handles every argument, in order:
\* it ends having reported, for each, a generated header or not-found.
C4_EveryArgumentProcessed ==
  (pc = "done" /\ Len(argv) >= 1) =>
    /\ Len(stdout) = Len(argv)
    /\ \A n \in DOMAIN stdout :
         /\ stdout[n].arg = argv[n]
         /\ stdout[n].kind \in {"generated", "notfound"}

\* C5: a header path that cannot be opened for writing is reported for that
\* file and leaves the tree as it was, and the run is not aborted: it goes
\* on with the remaining arguments.
C5_WriteFailureDoesNotAbort ==
  \A n \in DOMAIN stdout :
    stdout[n].kind = "traceback" => pc \in {"loop", "done"}

\* C6: a later run on an unchanged source leaves the header an earlier run
\* wrote exactly as it is (no step of the model changes a source file).
C6_Idempotent ==
  [][\A p \in DOMAIN writes : p \in DOMAIN fs' /\ fs'[p] = fs[p]]_vars

\* C6 witness: some header has been generated twice
C6_Witness ==
  \E p \in DOMAIN writes : writes[p] >= 2 /\ fs[p].lines # <<>>

\* the place of a header line in the order of the blocks
BlockRank(h) ==
  CASE IsIncludeText(h) -> 1
    [] IsMacroBeginText(h) -> 2
    [] IsNamespaceOpenText(h) -> 3
    [] IsDeclarationText(h) -> 4
    [] IsCloseBraceText(h) -> 5
    [] IsMacroEndText(h) -> 6
    [] OTHER -> 0

\* "namespace X {" for each recorded namespace X
NamespaceOpenTexts(namespaces) ==
  [n \in DOMAIN namespaces |-> kwNamespaceSp \o namespaces[n] \o kwOpenBrace]

\* C7: a header is the guard pair and a blank line, then the includes, the
\* macro opening, the namespace openings, the declarations, the closing
\* braces, the macro closing and last the #endif line; within a block the
\* lines are in recorded order.
C7_BlockOrder ==
  pc = "assembled" =>
    LET inner == SubSeq(header, 4, Len(header) - 1)
    IN  /\ Len(header) >= 6
        /\ HasAt(header[1], 1, kwIfndef)
        /\ HasAt(header[2], 1, kwDefineSp)
        /\ header[3] = <<>>
        /\ HasAt(header[Len(header)], 1, kwEndif)
        /\ \A n \in DOMAIN inner : inner[n] # <<>> => BlockRank(inner[n]) > 0
        /\ \A n, m \in DOMAIN inner :
             (n < m /\ inner[n] # <<>> /\ inner[m] # <<>>) =>
               BlockRank(inner[n]) <= BlockRank(inner[m])
        /\ SelectSeq(inner, IsIncludeText) = scan.includes
        /\ SelectSeq(inner, IsNamespaceOpenText) = NamespaceOpenTexts(scan.namespaces)
        /\ SelectSeq(inner, IsDeclarationText) = scan.declarations
        /\ Count(inner, IsMacroBeginText) <= 1
        /\ Count(inner, IsMacroEndText) <= 1

\* C7 witness: a header with an include, a namespace and a declaration
C7_Witness ==
  /\ pc = "assembled"
  /\ Count(header, IsIncludeText) = 1
  /\ Count(header, IsNamespaceOpenText) = 1
  /\ Count(header, IsDeclarationText) = 1
  /\ Count(header, IsCloseBraceText) = 1

\* C8: MANGANESE_BEGIN and MANGANESE_END are written, once each, exactly
\* when some source line was classified as a macro marker, whichever marker
\* and however many.
C8_MacroWrapping ==
  pc = "assembled" =>
    LET n == IF Count(file_content, IsMacroLine) >= 1 THEN 1 ELSE 0
    IN  /\ Count(header, IsMacroBeginText) = n
        /\ Count(header, IsMacroEndText) = n

\* C8 witness: the only marker of the source is an END marker, twice
C8_Witness ==
  /\ pc = "assembled"
  /\ Count(file_content, IsMacroLine) = 2
  /\ \A n \in DOMAIN file_content :
       IsMacroLine(file_content[n]) => file_content[n] = lnMacroEnd
  /\ Count(header, IsMacroBeginText) = 1
  /\ Count(header, IsMacroEndText) = 1

(***************************************************************************)
(* LineSpec: one-line files around the shape of a function definition:     *)
(* every line got from a skeleton by inserting at most MaxInserts          *)
(* characters, and the lines of LinePool                                   *)
(***************************************************************************)
LineAlphabet == {"a", "1", " ", ":", "*", "(", ")", "{", "\n"}

\* a a(){
skDefinition ==
  <<"a"," ","a","(",")","{">>
\* a a()
skNoBrace ==
  <<"a"," ","a","(",")">>
\* a(){
skNoType ==
  <<"a","(",")","{">>
Skeletons == {skDefinition, skNoBrace, skNoType, <<>>}

InsertAt(s, i, c) == SubSeq(s, 1, i) \o <<c>> \o SubSeq(s, i + 1, Len(s))

RECURSIVE Edited(_, _)
\* the lines got from those of S by at most k insertions
Edited(S, k) ==
  IF k = 0 THEN S
  ELSE Edited(S \cup UNION {{InsertAt(s, i, c) : i \in 0..Len(s), c \in LineAlphabet}
                            : s \in S},
              k - 1)

LineInit ==
  /\ IdleProgram
  /\ IdleLint
  /\ IdleBuild
  /\ pc = "scan"
  /\ \E l \in Edited(Skeletons, MaxInserts) \cup LinePool : file_content = <<l>>
  /\ source_filename = nameA
  /\ pos = 1
  /\ scan = EmptyScan
  /\ header = <<>>

LineSpec == LineInit /\ [][ScanNext]_vars

(***************************************************************************)
(* SplitSpec: a one-line function definition broken into two lines,        *)
(* between two other lines                                                 *)
(***************************************************************************)
\* static int f() {\n
lnFuncStatic ==
  <<"s","t","a","t","i","c"," ","i","n","t"," ","f","(",")"," ","{","\n">>
\* unsigned long g(int a, int b) {\n
lnFuncTwoArgs ==
  <<"u","n","s","i","g","n","e","d"," ","l","o","n","g"," ","g","(","i","n",
    "t"," ","a",","," ","i","n","t"," ","b",")"," ","{","\n">>
\* \tT<a> & h_1 ( x ,y )  { }\n
lnFuncSpaced ==
  <<"\t","T","<","a",">"," ","&"," ","h","_","1"," ","("," ","x"," ",",",
    "y"," ",")"," "," ","{"," ","}","\n">>
DefinitionPool ==
  {lnFuncVoid, lnFuncQualified, lnFuncStatic, lnFuncTwoArgs, lnFuncSpaced}

\* s broken after position k
SplitAt(s, k) == << SubSeq(s, 1, k) \o <<"\n">>, SubSeq(s, k + 1, Len(s)) >>

\* the position of the last character of the return type of definition s
ReturnTypeEnd(s) == SkipSpace(s, 1) + Len(strip(func_pattern(s).g1)) - 1

\* the position of the opening brace of the body of definition s
BodyBrace(s) == FindChar(s, FindChar(s, 1, ")"), "{")

\* where a line break can fall in the signature of s: from its first
\* character to its brace, between two tokens
SplitPoints(s) ==
  {k \in SkipSpace(s, 1)..(BodyBrace(s) - 1) :
     /\ ~(IsWord(s[k]) /\ IsWord(s[k + 1]))
     /\ ~(s[k] = ":" /\ s[k + 1] = ":")}

Around == {<<>>, <<lnIncludeV>>, <<lnFuncVoid>>, <<lnNamespace>>}

SplitInit ==
  /\ IdleProgram
  /\ IdleLint
  /\ IdleBuild
  /\ pc = "scan"
  /\ \E d \in DefinitionPool, before \in Around, after \in Around :
       \E k \in SplitPoints(d) :
         file_content = before \o SplitAt(d, k) \o after
  /\ source_filename = nameA
  /\ pos = 1
  /\ scan = EmptyScan
  /\ header = <<>>

SplitSpec == SplitInit /\ [][ScanNext]_vars

(***************************************************************************)
(* Properties of the function-definition rule                              *)
(***************************************************************************)
\* letters, digits, underscore, * & < > and whitespace
IsStatedReturnTypeChar(c) ==
  \/ \E m \in DOMAIN LowerSeq : c = LowerSeq[m] \/ c = UpperSeq[m]
  \/ c \in Digit \cup {"_", "*", "&", "<", ">", " ", "\t", "\n"}

\* the stated characters and the colon
IsStatedOrColon(c) == IsStatedReturnTypeChar(c) \/ c = ":"

\* s[i..j] holds only characters satisfying P
AllOf(s, i, j, P(_)) == \A x \in i..j : P(s[x])

\* s reads  R I(P) {  with R = s[a..b] over RT starting with a character of
\* RS, the identifier I = s[c..d], "(" at e, ")" at f and "{" at g
IsShape(s, a, b, c, d, e, f, g, RT(_), RS(_)) ==
  /\ AllOf(s, 1, a - 1, IsSpace)
  /\ ~IsSpace(s[a]) /\ RS(s[a])
  /\ AllOf(s, a, b, RT) /\ ~IsSpace(s[b])
  /\ c >= b + 2 /\ AllOf(s, b + 1, c - 1, IsSpace)
  /\ IsIdentStart(s[c]) /\ AllOf(s, c, d, IsWord)
  /\ AllOf(s, d + 1, e - 1, IsSpace) /\ s[e] = "("
  /\ s[f] = ")" /\ \A x \in (e + 1)..(f - 1) : s[x] # ")"
  /\ AllOf(s, f + 1, g - 1, IsSpace) /\ s[g] = "{"

\* <return-type> <identifier>(<parameters>); with each part trimmed
ShapePrototype(s, a, b, c, d, e, f) ==
  strip(SubSeq(s, a, b)) \o <<" ">> \o strip(SubSeq(s, c, d)) \o <<"(">>
  \o strip(SubSeq(s, e + 1, f - 1)) \o <<")", ";">>

\* the prototypes of the readings of s as a one-line definition
ShapePrototypes(s, RT(_), RS(_)) ==
  LET n == Len(s)
  IN  UNION {UNION {UNION {UNION {UNION {UNION {
        {ShapePrototype(s, a, b, c, d, e, f) :
           g \in {x \in (f + 1)..n : IsShape(s, a, b, c, d, e, f, x, RT, RS)}}
        : f \in {x \in (e + 1)..n : s[x] = ")"}}
        : e \in {x \in (d + 1)..n : s[x] = "("}}
        : d \in {x \in c..n : AllOf(s, c, x, IsWord)}}
        : c \in {x \in (b + 2)..n : IsIdentStart(s[x])}}
        : b \in {x \in a..n : AllOf(s, a, x, RT)}}
        : a \in {x \in 1..n : ~IsSpace(s[x]) /\ AllOf(s, 1, x - 1, IsSpace)}}

Range(seq) == {seq[n] : n \in DOMAIN seq}

\* C9 as stated: a line that is no include and no macro marker yields a
\* declaration exactly when it reads <return-type> <identifier>(<parameters>) {
\* with a return type of letters, digits, underscore, * & < > and whitespace
\* (read as starting like a type name, with a letter or underscore), and the
\* declaration is <return-type> <identifier>(<parameters>); trimmed.
C9_FunctionRuleAsStated ==
  (pc = "assembled" /\ Len(file_content) = 1
     /\ ~IsIncludeLine(file_content[1]) /\ ~define_pattern(file_content[1]).ok) =>
    Range(scan.declarations) =
      ShapePrototypes(file_content[1], IsStatedReturnTypeChar, IsIdentStart)

\* C9: the same with the return type as the code takes it: it starts with a
\* letter or underscore and may hold colons besides the stated characters.
C9_FunctionRule ==
  (pc = "assembled" /\ Len(file_content) = 1
     /\ ~IsIncludeLine(file_content[1]) /\ ~define_pattern(file_content[1]).ok) =>
    /\ Range(scan.declarations) =
         ShapePrototypes(file_content[1], IsStatedOrColon, IsIdentStart)
    /\ Len(scan.declarations) <= 1

\* C9 witness: a line whose return type holds a colon has yielded its prototype
C9_Witness ==
  /\ pc = "assembled"
  /\ Len(file_content) = 1
  /\ \E x \in DOMAIN file_content[1] : file_content[1][x] = ":"
  /\ Len(scan.declarations) = 1
  /\ \E x \in DOMAIN scan.declarations[1] : scan.declarations[1][x] = ":"

\* the declarations of the lines around a broken definition
AroundDeclarations(lines) ==
  extract_includes_and_declarations(lines, source_filename).declarations

\* what remains of the prototype of d when the break falls at k inside its
\* return type
TruncatedPrototype(d, k) ==
  strip(SubSeq(d, k + 1, ReturnTypeEnd(d))) \o <<" ">> \o func_pattern(d).g2
  \o <<"(">> \o strip(func_pattern(d).g3) \o <<")", ";">>

\* the first character of the second line of the broken definition that is
\* no whitespace starts an identifier
ResumesWithIdentifier(d, k) ==
  LET x == SkipSpace(d, k + 1) IN x <= Len(d) /\ IsIdentStart(d[x])

\* C10 as stated: of a definition broken into two lines anywhere in its
\* signature no line yields a declaration, and the lines around it are
\* classified as usual.
C10_SplitNeverCaptured ==
  pc = "assembled" =>
    \A d \in DefinitionPool, before \in Around, after \in Around :
      \A k \in SplitPoints(d) :
        file_content = before \o SplitAt(d, k) \o after =>
          scan.declarations = AroundDeclarations(before) \o AroundDeclarations(after)

\* C10: no line of the broken definition yields a declaration when the break
\* falls at or after the end of the return type (the parameters of these
\* definitions hold no parenthesis); when it falls inside the return type,
\* the second line yields the prototype with the rest of the return type if
\* that rest starts an identifier, and nothing otherwise.  The lines around
\* are classified as usual.
C10_SplitCapturedOnlyInReturnType ==
  pc = "assembled" =>
    \A d \in DefinitionPool, before \in Around, after \in Around :
      \A k \in SplitPoints(d) :
        file_content = before \o SplitAt(d, k) \o after =>
          LET whole == extract_includes_and_declarations(before \o after, source_filename)
              caught == IF k < ReturnTypeEnd(d) /\ ResumesWithIdentifier(d, k)
                        THEN <<TruncatedPrototype(d, k)>> ELSE <<>>
          IN  /\ scan.declarations =
                   AroundDeclarations(before) \o caught \o AroundDeclarations(after)
              /\ scan.includes = whole.includes
              /\ scan.namespaces = whole.namespaces
              /\ scan.manganese_macros = whole.manganese_macros

\* C10 witness: a definition broken inside its parameter list, nothing captured
C10_Witness ==
  /\ pc = "assembled"
  /\ \E k \in SplitPoints(lnFuncTwoArgs) :
       /\ k > FindChar(lnFuncTwoArgs, 1, "(")
       /\ k < FindChar(lnFuncTwoArgs, 1, ")")
       /\ file_content = SplitAt(lnFuncTwoArgs, k)
  /\ scan.declarations = <<>>

(***************************************************************************)
(* First-match classification                                              *)
(***************************************************************************)
\* the first rule a line matches, in the order include, macro marker,
\* function definition, namespace opening
Category(l) ==
  IF include_pattern(l).ok THEN "include"
  ELSE IF define_pattern(l).ok THEN "macro"
  ELSE IF func_pattern(l).ok THEN "function"
  ELSE IF namespace_pattern(l).ok THEN "namespace"
  ELSE "none"

\* the entry a line of a category gives
EntryOf(category, l) ==
  IF category = "function" THEN prototype(func_pattern(l))
  ELSE IF category = "namespace" THEN strip(namespace_pattern(l).g1)
  ELSE strip(l)

\* the entries of the four categories, counted together
Entries(r) ==
  Len(r.includes) + Len(r.manganese_macros) + Len(r.declarations)
    + Len(r.namespaces)

\* C11: every iteration of the loop leaves three of the four categories as
\* they were and adds at most one entry, at the end of the category of the
\* first rule the line matches, in the order include, macro marker, function
\* definition, namespace opening (an include of the file itself adds
\* nothing); a line matching no rule adds nothing.  So the entries of a
\* category are in line order and never outnumber the lines read.
C11_FirstMatchClassification ==
  [][pc = "scan" /\ pos <= Len(file_content) =>
       LET l == file_content[pos]
           k == Category(l)
           Grown(old, category) ==
             IF /\ k = category
                /\ k = "include" => include_pattern(l).g1 # source_filename
             THEN Append(old, EntryOf(k, l))
             ELSE old
       IN  /\ scan'.includes = Grown(scan.includes, "include")
           /\ scan'.manganese_macros = Grown(scan.manganese_macros, "macro")
           /\ scan'.declarations = Grown(scan.declarations, "function")
           /\ scan'.namespaces = Grown(scan.namespaces, "namespace")
           /\ Entries(scan') <= Entries(scan) + 1
           /\ Entries(scan') <= pos
    ]_vars

\* C11 witness: two definitions around a line matching no rule; the second
\* starts with the word namespace and is taken by the function rule
C11_Witness ==
  /\ pc = "assembled"
  /\ file_content = <<lnFuncQualified, lnStatement, lnNamespaceCall>>
  /\ scan.declarations =
       <<prototype(func_pattern(lnFuncQualified)),
         prototype(func_pattern(lnNamespaceCall))>>
  /\ scan.namespaces = <<>>
  /\ Entries(scan) = 2

(***************************************************************************)
(* Write footprint of generate_header_file                                 *)
(***************************************************************************)
\* the file a call for argv[argi] locates, and whether it is a .cpp file
Located == find_source_file(fs, walk, argv[argi])
LocatedCpp ==
  /\ Located # NoPath
  /\ Len(Located.name) > Len(suffixCpp)
  /\ SubSeq(Located.name, Len(Located.name) - Len(suffixCpp) + 1,
            Len(Located.name)) = suffixCpp

\* the located path with its .cpp replaced by .h, in the same directory
HeaderBeside(p) ==
  Path(p.dir, SubSeq(p.name, 1, Len(p.name) - Len(suffixCpp)) \o suffixH)

\* the paths a step creates, overwrites, removes or opens for writing
Touched ==
  {p \in DOMAIN fs \cup DOMAIN fs' \cup DOMAIN writes' :
     \/ (p \in DOMAIN fs) # (p \in DOMAIN fs')
     \/ p \in DOMAIN fs /\ p \in DOMAIN fs' /\ fs'[p] # fs[p]
     \/ (p \in DOMAIN writes) # (p \in DOMAIN writes')
     \/ p \in DOMAIN writes /\ p \in DOMAIN writes' /\ writes'[p] # writes[p]}

\* C15: a call of generate_header_file creates or overwrites no path but the
\* located source path with its extension replaced by .h, in the source's
\* directory; that path is not the source, which stays as it was; and when
\* no file is found, or the one found is not a .cpp file, the call reads
\* nothing, writes nothing and only prints the not-found message.
C15_WriteFootprint ==
  [][pc = "loop" /\ argi <= Len(argv) =>
       IF LocatedCpp
       THEN /\ Touched \subseteq {HeaderBeside(Located)}
            /\ HeaderBeside(Located) # Located
            /\ Located \in DOMAIN fs' /\ fs'[Located] = fs[Located]
            /\ reads' \subseteq reads \cup {Located}
       ELSE /\ Touched = {}
            /\ reads' = reads
            /\ stdout' = Append(stdout, Message("notfound", argv[argi], NoPath))
            /\ pc' = pc
    ]_vars

\* C15 witness: a.cpp was read and its stale a.h overwritten beside it, and
\* in a later run n.hpp, which exists, was reported as not found
C15_Witness ==
  /\ \E d \in {"d1", "d2"} :
       /\ reads = {Path(d, nameA)}
       /\ DOMAIN writes = {HeaderBeside(Path(d, nameA))}
       /\ fs[HeaderBeside(Path(d, nameA))] # File(<<lnStatement>>)
       /\ fs[Path(d, nameA)].lines \in {ContentA1, ContentA2}
  /\ fs[Path("d1", nameHpp)] = File(<<lnFuncVoid>>)
  /\ argv = <<nameHpp>>
  /\ stdout = <<Message("notfound", nameHpp, NoPath)>>

(***************************************************************************)
(* lint.py                                                                 *)
(***************************************************************************)
\* (".cpp", ".hpp", ".c", ".h", ".cxx", ".hxx", ".cc", ".hh")
EXTENSIONS ==
  <<<<".","c","p","p">>,
    <<".","h","p","p">>,
    <<".","c">>,
    <<".","h">>,
    <<".","c","x","x">>,
    <<".","h","x","x">>,
    <<".","c","c">>,
    <<".","h","h">>>>

LINT_SUCCEEDED == 0
LINT_FAILED == 1

\* ["manganese.cpp", "manganese_tests.cpp"]
EXTRA_FILES ==
  <<<<"m","a","n","g","a","n","e","s","e",".","c","p","p">>,
    <<"m","a","n","g","a","n","e","s","e","_","t","e","s","t","s",".","c","p","p">>>>

\* the literal of the exclusion test
kwXDot == <<"x", ".">>

\* str.endswith(suffixes) with a tuple of suffixes
endswith(s, suffixes) ==
  \E n \in DOMAIN suffixes :
    /\ Len(suffixes[n]) <= Len(s)
    /\ SubSeq(s, Len(s) - Len(suffixes[n]) + 1, Len(s)) = suffixes[n]

\* sub in s
contains(s, sub) == \E i \in 1..(Len(s) - Len(sub) + 1) : HasAt(s, i, sub)

\* [file for file in files if (file.endswith(EXTENSIONS) and "x." not in file)]
select_files(all_files) ==
  LET keep(file) == endswith(file, EXTENSIONS) /\ ~contains(file, kwXDot)
  IN  SelectSeq(all_files, keep)

\* check_file returning the exit code of the analyzer
check_file_exit_code(returncode) == returncode

\* check_file: subprocess.run(..., check = True) raises CalledProcessError on
\* every exit code but 0
check_file(returncode) ==
  IF returncode # 0 THEN LINT_FAILED ELSE LINT_SUCCEEDED

\* if result == LINT_FAILED: failed_files.append(file)
record_result(failed, file, result) ==
  IF result = LINT_FAILED THEN Append(failed, file) ELSE failed

\* the files of one lint run
MaxFiles == 3

\* src/a.cpp
pSrcA ==
  <<"s","r","c","/","a",".","c","p","p">>
\* src/x.b.cpp
pSrcXB ==
  <<"s","r","c","/","x",".","b",".","c","p","p">>
\* src/lex.cpp
pSrcLex ==
  <<"s","r","c","/","l","e","x",".","c","p","p">>
\* src/x.d/c.h
pSrcXDir ==
  <<"s","r","c","/","x",".","d","/","c",".","h">>
\* include/m.hpp
pIncM ==
  <<"i","n","c","l","u","d","e","/","m",".","h","p","p">>
\* tests/t.py
pTestsPy ==
  <<"t","e","s","t","s","/","t",".","p","y">>
\* tests/a.cxx
pTestsCxx ==
  <<"t","e","s","t","s","/","a",".","c","x","x">>
WalkPool == {pSrcA, pSrcXB, pSrcLex, pSrcXDir, pIncM, pTestsPy, pTestsCxx}

\* the exit codes of the analyzer
ReturnCodes == {0, 1, 2}

\* the root a walked path lies under: src, include, tests in this order
RootRank(path) ==
  IF HasAt(path, 1, <<"s", "r", "c", "/">>) THEN 1
  ELSE IF HasAt(path, 1, <<"i", "n", "c", "l", "u", "d", "e", "/">>) THEN 2
  ELSE 3

\* what get_filenames_in can return: each file once, the roots in the order
\* of the call, the files of a root in the order of os.walk
Walks ==
  {w \in BSeq(WalkPool, MaxFiles) :
     /\ \A a, b \in DOMAIN w : a # b => w[a] # w[b]
     /\ \A a, b \in DOMAIN w : a < b => RootRank(w[a]) <= RootRank(w[b])}

IdleScan ==
  /\ file_content = <<>>
  /\ source_filename = <<>>
  /\ pos = 0
  /\ scan = EmptyScan
  /\ header = <<>>

LintInit ==
  /\ IdleProgram
  /\ IdleBuild
  /\ IdleScan
  /\ pc = "lint"
  /\ walked \in Walks
  /\ files = <<>>
  /\ failed_files = <<>>
  /\ next_file = 0
  /\ invoked = <<>>
  /\ lint_out = <<>>

\* files = [...] + EXTRA_FILES, filtered; failed_files = []
SelectFiles ==
  /\ pc = "lint"
  /\ files' = select_files(walked \o EXTRA_FILES)
  /\ failed_files' = <<>>
  /\ next_file' = 1
  /\ pc' = "check"
  /\ UNCHANGED <<prog, scanv, buildv, walked, invoked, lint_out>>

\* for file in files: one iteration, the analyzer exiting with any code
CheckFile ==
  /\ pc = "check"
  /\ next_file <= Len(files)
  /\ \E returncode \in ReturnCodes :
       /\ invoked' = Append(invoked, [file |-> files[next_file],
                                      returncode |-> returncode])
       /\ failed_files' = record_result(failed_files, files[next_file],
                                        check_file(returncode))
  /\ lint_out' = Append(lint_out, [kind |-> "checking",
                                   files |-> <<files[next_file]>>])
  /\ next_file' = next_file + 1
  /\ UNCHANGED <<prog, pc, scanv, buildv, walked, files>>

\* if failed_files: print("The following file(s) had lint errors:", ...)
Summary ==
  /\ pc = "check"
  /\ next_file > Len(files)
  /\ lint_out' = IF failed_files # <<>>
                 THEN Append(lint_out, [kind |-> "summary",
                                        files |-> failed_files])
                 ELSE lint_out
  /\ pc' = "linted"
  /\ UNCHANGED <<prog, scanv, buildv, walked, files, failed_files, next_file, invoked>>

LintNext ==
  \/ SelectFiles
  \/ CheckFile
  \/ Summary

LintSpec == LintInit /\ [][LintNext]_vars

(***************************************************************************)
(* Properties of the lint runner                                           *)
(***************************************************************************)
\* the name of a file: its path after the last separator
basename(path) ==
  LET seps == {n \in DOMAIN path : path[n] = "/"}
      last == IF seps = {} THEN 0
              ELSE CHOOSE a \in seps : \A b \in seps : a >= b
  IN  SubSeq(path, last + 1, Len(path))

HasRecognizedExtension(path) ==
  \E n \in DOMAIN EXTENSIONS :
    /\ Len(path) >= Len(EXTENSIONS[n])
    /\ \A k \in 1..Len(EXTENSIONS[n]) :
         path[Len(path) - Len(EXTENSIONS[n]) + k] = EXTENSIONS[n][k]

IsPrefixedWithXDot(path) ==
  /\ Len(basename(path)) >= 2
  /\ basename(path)[1] = "x"
  /\ basename(path)[2] = "."

ShouldBeChecked(path) ==
  HasRecognizedExtension(path) /\ ~IsPrefixedWithXDot(path)

\* C12: the files to check are the walked files and the two root files that
\* have a recognized extension and whose name is not prefixed with x., in
\* the order found; no other file is skipped.
C12_SkipsOnlyPrefixed ==
  pc \in {"check", "linted"} =>
    files = SelectSeq(walked \o EXTRA_FILES, ShouldBeChecked)

\* the files of the analyzer runs, in the order of the runs
InvokedFiles == [n \in DOMAIN invoked |-> invoked[n].file]

AnalyzerFailed(run) == run.returncode # 0

\* the files of the failed analyzer runs, in the order of the runs
FailedRuns ==
  LET failed == SelectSeq(invoked, AnalyzerFailed)
  IN  [n \in DOMAIN failed |-> failed[n].file]

IsSummary(line) == line.kind = "summary"

\* C13: the analyzer runs so far are the files before the loop position,
\* once each and in list order, whatever their exit codes; the failed list
\* is the files of the failed runs, in order; the run ends only after every
\* file was checked, and prints the failed list as its one summary exactly
\* when that list is not empty.
C13_ContinuesAndAggregates ==
  pc \in {"check", "linted"} =>
    /\ InvokedFiles = SubSeq(files, 1, next_file - 1)
    /\ failed_files = FailedRuns
    /\ pc = "check" => SelectSeq(lint_out, IsSummary) = <<>>
    /\ pc = "linted" =>
         /\ InvokedFiles = files
         /\ SelectSeq(lint_out, IsSummary) =
              IF FailedRuns = <<>> THEN <<>>
              ELSE <<[kind |-> "summary", files |-> FailedRuns]>>

\* C13 witness: the first of three files failed with exit code 2, the
\* second passed, the third failed, and the summary names the first and third
C13_Witness ==
  /\ pc = "linted"
  /\ Len(invoked) = 3
  /\ invoked[1].returncode = 2
  /\ invoked[2].returncode = 0
  /\ invoked[3].returncode = 1
  /\ failed_files = <<files[1], files[3]>>
  /\ lint_out[Len(lint_out)] = [kind |-> "summary", files |-> failed_files]

(***************************************************************************)
(* scripts/build.py and build.py                                           *)
(***************************************************************************)
ScriptsBuild == "scripts/build.py"
RootBuild == "build.py"

\* BUILD_DIR, bin_dir / OUT_NAME and Path.cwd() / OUT_NAME, with the default
\* build directory
BuildDir == "build"
OutputFile == "build/bin/manganese"
RootFile == "manganese"

\* cmake_args and cmake_build_args, without the flags derived from the record
cmake_args == <<"cmake", "..">>
cmake_build_args == <<"cmake", "--build", ".">>

\* if args.clean and args.no_move: args.no_move = False
supersede_no_move(a) ==
  [a EXCEPT !.no_move = IF a.clean /\ a.no_move THEN FALSE ELSE @]

\* (bin_dir if args.no_move else Path.cwd()) / OUT_NAME
EXECUTE_PATH(a) == IF a.no_move THEN OutputFile ELSE RootFile

\* what follows EXECUTE_PATH in the command: args.exec_with in
\* scripts/build.py, args.exec_args[1:] in build.py
exec_arguments(s, a) ==
  IF s = ScriptsBuild THEN a.exec
  ELSE IF a.exec = <<>> THEN <<>> ELSE Tail(a.exec)

\* a command run_command ran, and the exit code it ended with
Command(step, command, returncode) ==
  [step |-> step, command |-> command, returncode |-> returncode]

\* a step that runs no command
Step(step) == Command(step, <<>>, 0)

\* the arguments after the options
MaxTail == 2

\* what argparse.REMAINDER collects: for --exec-with the words after it, for
\* the positional exec_args the words from the first positional on, a
\* leading -- included
Tails(s) ==
  LET words == BSeq({"foo", "bar"}, MaxTail)
  IN  IF s = ScriptsBuild THEN words
      ELSE words \cup {<<"--">> \o w : w \in words}

BuildInit ==
  /\ IdleProgram
  /\ IdleScan
  /\ IdleLint
  /\ pc = "parsed"
  /\ script \in {ScriptsBuild, RootBuild}
  /\ args \in [run : BOOLEAN, no_move : BOOLEAN, clean : BOOLEAN,
               fresh_build : BOOLEAN, exec : Tails(script)]
  /\ artifact \in {{}, {RootFile}, {BuildDir}, {BuildDir, OutputFile},
                   {BuildDir, OutputFile, RootFile}}
  /\ performed = <<>>
  /\ exit_code = 0

\* from parse_args to os.chdir(BUILD_DIR): --clean supersedes --no-move, a
\* fresh build removes the build directory, the directory is made
Prepare ==
  /\ pc = "parsed"
  /\ args' = supersede_no_move(args)
  /\ artifact' = (IF args.fresh_build THEN artifact \ {BuildDir, OutputFile}
                  ELSE artifact) \cup {BuildDir}
  /\ pc' = "configure"
  /\ UNCHANGED <<prog, scanv, lintv, script, performed, exit_code>>

\* shutil.rmtree(BUILD_DIR) raises PermissionError: sys.exit(1)
FreshBuildDenied ==
  /\ pc = "parsed"
  /\ args.fresh_build
  /\ BuildDir \in artifact
  /\ args' = supersede_no_move(args)
  /\ artifact' \in {artifact, artifact \ {OutputFile}}
  /\ exit_code' = 1
  /\ pc' = "exited"
  /\ UNCHANGED <<prog, scanv, lintv, script, performed>>

\* run_command(cmake_args)
Configure ==
  /\ pc = "configure"
  /\ \E returncode \in ReturnCodes :
       /\ performed' = Append(performed,
                              Command("configure", cmake_args, returncode))
       /\ IF returncode # 0
          THEN pc' = "exited" /\ exit_code' = returncode
          ELSE pc' = "build" /\ exit_code' = exit_code
  /\ UNCHANGED <<prog, scanv, lintv, script, args, artifact>>

\* run_command(cmake_build_args); a build that succeeds leaves the
\* executable in build/bin unless the target built is another
Build ==
  /\ pc = "build"
  /\ \E returncode \in ReturnCodes :
       /\ performed' = Append(performed,
                              Command("build", cmake_build_args, returncode))
       /\ IF returncode # 0
          THEN /\ pc' = "exited"
               /\ exit_code' = returncode
               /\ artifact' = artifact
          ELSE /\ pc' = "move"
               /\ exit_code' = exit_code
               /\ artifact' \in {artifact, artifact \cup {OutputFile}}
  /\ UNCHANGED <<prog, scanv, lintv, script, args>>

\* if not args.no_move: shutil.move(output_file, dest_file), or the
\* could-not-find message
Move ==
  /\ pc = "move"
  /\ IF args.no_move
     THEN UNCHANGED <<artifact, performed>>
     ELSE IF OutputFile \in artifact
     THEN /\ artifact' = (artifact \ {OutputFile}) \cup {RootFile}
          /\ performed' = Append(performed, Step("move"))
     ELSE /\ artifact' = artifact
          /\ performed' = Append(performed, Step("could_not_find"))
  /\ pc' = "clean"
  /\ UNCHANGED <<prog, scanv, lintv, script, args, exit_code>>

\* if args.clean: everything under the build directory is removed, bin
\* with what is in it included
Clean ==
  /\ pc = "clean"
  /\ IF args.clean
     THEN /\ artifact' = artifact \ {OutputFile}
          /\ performed' = Append(performed, Step("clean"))
     ELSE UNCHANGED <<artifact, performed>>
  /\ pc' = "run"
  /\ UNCHANGED <<prog, scanv, lintv, script, args, exit_code>>

\* if args.run: run_command([EXECUTE_PATH] + arguments), the file being there
Run ==
  /\ pc = "run"
  /\ args.run
  /\ EXECUTE_PATH(args) \in artifact
  /\ \E returncode \in ReturnCodes :
       /\ performed' =
            Append(performed,
                   Command("run", <<EXECUTE_PATH(args)>>
                                    \o exec_arguments(script, args),
                           returncode))
       /\ exit_code' = returncode
  /\ pc' = "exited"
  /\ UNCHANGED <<prog, scanv, lintv, script, args, artifact>>

\* if args.run: there is no file at EXECUTE_PATH, subprocess.run raises
\* FileNotFoundError and the script ends with a traceback
RunCannotStart ==
  /\ pc = "run"
  /\ args.run
  /\ EXECUTE_PATH(args) \notin artifact
  /\ performed' =
       Append(performed,
              Command("cannot_start", <<EXECUTE_PATH(args)>>
                                        \o exec_arguments(script, args), 1))
  /\ exit_code' = 1
  /\ pc' = "exited"
  /\ UNCHANGED <<prog, scanv, lintv, script, args, artifact>>

\* the run was not asked for: the script ends
BuildEnd ==
  /\ pc = "run"
  /\ ~args.run
  /\ pc' = "exited"
  /\ UNCHANGED <<prog, scanv, lintv, buildv>>

BuildNext ==
  \/ Prepare
  \/ FreshBuildDenied
  \/ Configure
  \/ Build
  \/ Move
  \/ Clean
  \/ Run
  \/ RunCannotStart
  \/ BuildEnd

BuildSpec == BuildInit /\ [][BuildNext]_vars

(***************************************************************************)
(* Properties of the build scripts                                         *)
(***************************************************************************)
IsCommand(p) == p.step \in {"configure", "build", "run"}
IsCmake(p) == p.step \in {"configure", "build"}
IsAfterBuild(p) ==
  p.step \in {"move", "could_not_find", "clean", "run", "cannot_start"}
IsMoveStep(p) == p.step \in {"move", "could_not_find"}
IsRunStep(p) == p.step \in {"run", "cannot_start"}

StepsOf(seq) == [n \in DOMAIN seq |-> seq[n].step]

IsPrefix(s, t) == Len(s) <= Len(t) /\ s = SubSeq(t, 1, Len(s))

\* the arguments the user gave for the executable: the collected words,
\* without the -- that may separate them from the options
TrailingArguments(a) ==
  IF a.exec # <<>> /\ a.exec[1] = "--" THEN Tail(a.exec) ELSE a.exec

\* the build system runs as configure then build and no more; a step after
\* the build is done only when both succeeded; a failed command is the last
\* step and its exit code is the script's; a script that ends with 0 ran both
BuildStepsOrdered ==
  pc \in {"configure", "build", "move", "clean", "run", "exited"} =>
    /\ IsPrefix(StepsOf(SelectSeq(performed, IsCommand)),
                <<"configure", "build", "run">>)
    /\ IsPrefix(SelectSeq(performed, IsCmake),
                <<Command("configure", cmake_args,
                          IF performed = <<>> THEN 0
                          ELSE performed[1].returncode),
                  Command("build", cmake_build_args,
                          IF Len(performed) < 2 THEN 0
                          ELSE performed[2].returncode)>>)
    /\ \A n \in DOMAIN performed :
         /\ IsAfterBuild(performed[n]) =>
              /\ n > 2
              /\ performed[1] = Command("configure", cmake_args, 0)
              /\ performed[2] = Command("build", cmake_build_args, 0)
         /\ IsCommand(performed[n]) /\ performed[n].returncode # 0 =>
              /\ n = Len(performed)
              /\ pc = "exited"
              /\ exit_code = performed[n].returncode
    /\ pc = "exited" /\ exit_code = 0 =>
         /\ Len(performed) >= 2
         /\ performed[1] = Command("configure", cmake_args, 0)
         /\ performed[2] = Command("build", cmake_build_args, 0)

\* the executable is started only when the run is asked for, from build/bin
\* when no move was tried and from the root otherwise
RunsFromTheRightDirectory ==
  \A n \in DOMAIN performed :
    IsRunStep(performed[n]) =>
      /\ args.run
      /\ performed[n].command[1] =
           IF SelectSeq(performed, IsMoveStep) = <<>> THEN OutputFile
           ELSE RootFile

\* the executable gets the trailing arguments, all of them, in their order
TrailingArgumentsForwarded ==
  \A n \in DOMAIN performed :
    IsRunStep(performed[n]) =>
      Tail(performed[n].command) = TrailingArguments(args)

\* C14: the build system is run twice, configure then build; the move, the
\* clean and the run happen only after both succeeded; a failed command
\* ends the script at once with its exit code; the executable is run from
\* build/bin when the move was suppressed and from the root otherwise, with
\* the trailing arguments in their order.
C14_BuildStepOrdering ==
  /\ BuildStepsOrdered
  /\ RunsFromTheRightDirectory
  /\ TrailingArgumentsForwarded

=============================================================================
